---- MODULE Spec2Model ----
(***************************************************************************)
(* Tabular dynamic programming over two grid MDPs: the FrozenLake and      *)
(* GridWorld environments (reset / step / p / r) and the solvers           *)
(* policy_evaluation, policy_improvement, policy_iteration and             *)
(* value_iteration.  Real numbers are exact rationals <<numerator,         *)
(* denominator>> in lowest terms with a positive denominator; float        *)
(* rounding is not modelled.                                               *)
(***************************************************************************)
EXTENDS Integers, Sequences, FiniteSets, TLC

VARIABLES
    env,                \* the constructed environment
    state, n_steps,     \* Environment.state, Environment.n_steps
    k,                  \* step calls returned since the last reset
    ret,                \* the last call on the environment and what it returned
    model,              \* p, r = env.get_prob_rewards()
    gamma, theta, max_iterations,   \* the solvers' arguments
    pc,                 \* where the solver run is
    policy, value, stop, current_iteration,   \* policy_iteration's locals
    ev,                 \* policy_evaluation's locals
    vi,                 \* value_iteration's locals
    rounds,             \* what each round of policy_iteration did
    saved               \* the file save_file wrote

vars == <<env, state, n_steps, k, ret, model, gamma, theta, max_iterations, pc,
          policy, value, stop, current_iteration, ev, vi, rounds, saved>>

episodeVars == <<state, n_steps, k, ret>>

solverVars == <<model, gamma, theta, max_iterations, pc, policy, value, stop,
                current_iteration, ev, vi, rounds, saved>>

----------------------------------------------------------------------------
(* Bounds of the model.                                                    *)

\* a grid has at most MaxCells cells (rows * columns)
MaxCells == 3

\* slip ranges over 0/SlipDen .. SlipDen/SlipDen
SlipDen == 2

\* max_steps ranges over 1 .. MaxSteps
MaxSteps == 2

\* max_iterations ranges over 0 .. MaxIter
MaxIter == 3

----------------------------------------------------------------------------
(* Exact rational arithmetic.                                              *)

RECURSIVE Gcd(_, _)
Gcd(a, b) == IF b = 0 THEN a ELSE Gcd(b, a % b)

IAbs(i) == IF i < 0 THEN -i ELSE i

Norm(n, d) ==
    LET g == Gcd(IAbs(n), IAbs(d))
        sgn == IF d < 0 THEN -1 ELSE 1
    IN  <<sgn * (n \div g), sgn * (d \div g)>>

Rat(i) == <<i, 1>>

\* integers and zero take the short way; the result is the same
RAdd(x, y) ==
    IF x[1] = 0 THEN y
    ELSE IF y[1] = 0 THEN x
    ELSE IF x[2] = 1 /\ y[2] = 1 THEN <<x[1] + y[1], 1>>
    ELSE Norm(x[1] * y[2] + y[1] * x[2], x[2] * y[2])

RSub(x, y) ==
    IF y[1] = 0 THEN x
    ELSE IF x[2] = 1 /\ y[2] = 1 THEN <<x[1] - y[1], 1>>
    ELSE Norm(x[1] * y[2] - y[1] * x[2], x[2] * y[2])

RMul(x, y) ==
    IF x[1] = 0 THEN <<0, 1>>
    ELSE IF x = <<1, 1>> THEN y
    ELSE IF y[1] = 0 THEN <<0, 1>>
    ELSE IF x[2] = 1 /\ y[2] = 1 THEN <<x[1] * y[1], 1>>
    ELSE Norm(x[1] * y[1], x[2] * y[2])

RDivInt(x, i) == Norm(x[1], x[2] * i)

RLt(x, y) == x[1] * y[2] < y[1] * x[2]

RLe(x, y) == x[1] * y[2] <= y[1] * x[2]

RAbs(x) == <<IAbs(x[1]), x[2]>>

RMax(x, y) == IF RLt(x, y) THEN y ELSE x

\* the sum of f[i] over i in lo..hi, left to right
RECURSIVE RSum(_, _, _)
RSum(f, lo, hi) == IF lo > hi THEN Rat(0) ELSE RAdd(f[lo], RSum(f, lo + 1, hi))

----------------------------------------------------------------------------
(* Grid symbols and the index <-> position mapping.                        *)

START == "&"

PLAIN == "."

BLOCK == "#"

GOAL == "$"

NEGGOAL == "L"

n_actions == 4

\* movement deltas (row, column) of up, down, left, right
actions == <<<<-1, 0>>, <<1, 0>>, <<0, -1>>, <<0, 1>>>>

Actions == 0 .. n_actions - 1

index_to_position(index, columns) == <<index \div columns, index % columns>>

position_to_index(x, y, columns) == x * columns + y

n_states(e) == e.rows * e.columns + 1

absorbing_state(e) == n_states(e) - 1

States(e) == 0 .. n_states(e) - 1

\* the symbol of the cell at position pos (0-based row, column)
cell(e, pos) == e.grid[pos[1] * e.columns + pos[2] + 1]

\* initial-state distribution: mass 1 on the start cell
pi(e) == [s \in States(e) |->
            IF s < absorbing_state(e) /\ e.grid[s + 1] = START THEN 1 ELSE 0]

in_bounds(e, x, y) == 0 <= x /\ x < e.rows /\ 0 <= y /\ y < e.columns
----------------------------------------------------------------------------
(* Environment records.  An environment is                                 *)
(*   [kind, rows, columns, grid, max_steps]                                *)
(* with grid the row-major sequence of cell symbols (self.lake of a        *)
(* FrozenLake, self.world of a GridWorld); a FrozenLake also has slip and  *)
(* P, the tensor self._p indexed [state][action][next_state].              *)

Symbols(kind) ==
    IF kind = "FrozenLake" THEN {START, PLAIN, BLOCK, GOAL}
    ELSE {START, PLAIN, BLOCK, NEGGOAL, GOAL}

\* grid shapes <<rows, columns>> of at most MaxCells cells
Shapes == {sh \in (1 .. MaxCells) \X (1 .. MaxCells) : sh[1] * sh[2] <= MaxCells}

\* grids of a shape with exactly one start cell (pi must sum to 1)
Grids(kind, sh) ==
    {g \in [1 .. sh[1] * sh[2] -> Symbols(kind)] :
        Cardinality({i \in 1 .. sh[1] * sh[2] : g[i] = START}) = 1}

Slips == {Norm(i, SlipDen) : i \in 0 .. SlipDen}

----------------------------------------------------------------------------
(* FrozenLake: the dense tensor built by _populate_probabilities, and r.   *)

\* slip_target with the column bound left unchecked
slip_target_no_column_check(e, st, slip_action) ==
    LET pos == index_to_position(st, e.columns)
        next_x == pos[1] + actions[slip_action + 1][1]
        next_y == pos[2] + actions[slip_action + 1][2]
    IN  IF 0 <= next_x /\ next_x < e.rows
        THEN position_to_index(next_x, next_y, e.columns)
        ELSE st

\* the cell reached from state by slip_action, state itself at a wall
slip_target(e, st, slip_action) ==
    LET pos == index_to_position(st, e.columns)
        next_x == pos[1] + actions[slip_action + 1][1]
        next_y == pos[2] + actions[slip_action + 1][2]
    IN  IF in_bounds(e, next_x, next_y)
        THEN position_to_index(next_x, next_y, e.columns)
        ELSE st

\* slip_mass with 1 - slip added for every slip_action
slip_mass_every_action(e, st, action, next_state, slip_action) ==
    IF slip_target(e, st, slip_action) # next_state THEN Rat(0)
    ELSE RAdd(RDivInt(e.slip, n_actions), RSub(Rat(1), e.slip))

\* what the loop body adds to _p[state, action, next_state] for slip_action
slip_mass(e, st, action, next_state, slip_action) ==
    IF slip_target(e, st, slip_action) # next_state THEN Rat(0)
    ELSE RAdd(RDivInt(e.slip, n_actions),
              IF action = slip_action THEN RSub(Rat(1), e.slip) ELSE Rat(0))

\* populate_probabilities with the terminal rule written to the whole row
populate_probabilities_whole_row(e, st, action, next_state) ==
    IF st = absorbing_state(e) THEN Rat(1)
    ELSE IF cell(e, index_to_position(st, e.columns)) \in {BLOCK, GOAL}
    THEN Rat(1)
    ELSE RSum([sa \in Actions |-> slip_mass(e, st, action, next_state, sa)],
              0, n_actions - 1)

\* _p[state, action, next_state] after _populate_probabilities
populate_probabilities(e, st, action, next_state) ==
    IF st = absorbing_state(e)
    THEN (IF next_state = absorbing_state(e) THEN Rat(1) ELSE Rat(0))
    ELSE IF cell(e, index_to_position(st, e.columns)) \in {BLOCK, GOAL}
    THEN (IF next_state = absorbing_state(e) THEN Rat(1) ELSE Rat(0))
    ELSE RSum([sa \in Actions |-> slip_mass(e, st, action, next_state, sa)],
              0, n_actions - 1)

\* FrozenLake.__init__
FrozenLake(rows, columns, lake, slip, max_steps) ==
    LET self == [kind |-> "FrozenLake", rows |-> rows, columns |-> columns,
                 grid |-> lake, slip |-> slip, max_steps |-> max_steps]
    IN  [kind |-> "FrozenLake", rows |-> rows, columns |-> columns,
         grid |-> lake, slip |-> slip, max_steps |-> max_steps,
         P |-> [st \in States(self) |-> [a \in Actions |->
                 [ns \in States(self) |->
                     populate_probabilities(self, st, a, ns)]]]]

FrozenLake_p(e, next_state, st, action) == e.P[st][action][next_state]

\* FrozenLake_r paying on entering the goal instead of on leaving it
FrozenLake_r_on_entering(e, next_state, st, action) ==
    IF e.P[st][action][next_state] = Rat(0) THEN 0
    ELSE IF absorbing_state(e) \in {st, next_state} THEN 0
    ELSE IF cell(e, index_to_position(next_state, e.columns)) = GOAL THEN 1
    ELSE 0

FrozenLake_r(e, next_state, st, action) ==
    IF e.P[st][action][next_state] = Rat(0) THEN 0
    ELSE IF absorbing_state(e) = st THEN 0
    ELSE IF cell(e, index_to_position(st, e.columns)) = GOAL THEN 1
    ELSE 0

----------------------------------------------------------------------------
(* GridWorld: p computed on demand, and r.                                 *)

int(b) == IF b THEN 1 ELSE 0

\* GridWorld.__init__
GridWorld(rows, columns, grid, max_steps) ==
    [kind |-> "GridWorld", rows |-> rows, columns |-> columns, grid |-> grid,
     max_steps |-> max_steps]

\* GridWorld_p moving into obstacles
GridWorld_p_through_obstacles(e, next_state, st, action) ==
    LET pos == index_to_position(st, e.columns)
        next_x == pos[1] + actions[action + 1][1]
        next_y == pos[2] + actions[action + 1][2]
    IN  IF st = absorbing_state(e) THEN int(st = next_state)
        ELSE IF cell(e, pos) = BLOCK THEN int(st = next_state)
        ELSE IF cell(e, pos) \in {NEGGOAL, GOAL}
        THEN int(next_state = absorbing_state(e))
        ELSE IF in_bounds(e, next_x, next_y)
        THEN int(next_state = position_to_index(next_x, next_y, e.columns))
        ELSE int(st = next_state)

GridWorld_p(e, next_state, st, action) ==
    LET pos == index_to_position(st, e.columns)
        next_x == pos[1] + actions[action + 1][1]
        next_y == pos[2] + actions[action + 1][2]
    IN  IF st = absorbing_state(e) THEN int(st = next_state)
        ELSE IF cell(e, pos) = BLOCK THEN int(st = next_state)
        ELSE IF cell(e, pos) \in {NEGGOAL, GOAL}
        THEN int(next_state = absorbing_state(e))
        ELSE IF in_bounds(e, next_x, next_y)
        THEN (IF cell(e, <<next_x, next_y>>) # BLOCK
              THEN int(next_state = position_to_index(next_x, next_y, e.columns))
              ELSE int(st = next_state))
        ELSE int(st = next_state)

\* GridWorld_r reading the token of the origin cell
GridWorld_r_of_origin(e, next_state, st, action) ==
    IF GridWorld_p(e, next_state, st, action) = 0 THEN 0
    ELSE IF absorbing_state(e) = st THEN 0
    ELSE LET token == cell(e, index_to_position(st, e.columns))
         IN  IF token = GOAL THEN 1
             ELSE IF token = NEGGOAL THEN -1
             ELSE 0

\* GridWorld_r paying +1 for either goal
GridWorld_r_unsigned(e, next_state, st, action) ==
    IF GridWorld_p(e, next_state, st, action) = 0 THEN 0
    ELSE IF absorbing_state(e) \in {st, next_state} THEN 0
    ELSE LET token == cell(e, index_to_position(next_state, e.columns))
         IN  IF token \in {GOAL, NEGGOAL} THEN 1 ELSE 0

GridWorld_r(e, next_state, st, action) ==
    IF GridWorld_p(e, next_state, st, action) = 0 THEN 0
    ELSE IF absorbing_state(e) \in {st, next_state} THEN 0
    ELSE LET token == cell(e, index_to_position(next_state, e.columns))
         IN  IF token = GOAL THEN 1
             ELSE IF token = NEGGOAL THEN -1
             ELSE 0

----------------------------------------------------------------------------
(* The oracle of an environment, by the class of the object.               *)

p(e, next_state, st, action) ==
    IF e.kind = "FrozenLake" THEN FrozenLake_p(e, next_state, st, action)
    ELSE Rat(GridWorld_p(e, next_state, st, action))

r(e, next_state, st, action) ==
    IF e.kind = "FrozenLake" THEN FrozenLake_r(e, next_state, st, action)
    ELSE GridWorld_r(e, next_state, st, action)
\* the environments a caller can construct within the bounds, with a slip
\* from slips and a step budget from budgets
Envs(slips, budgets) ==
    UNION {
        {FrozenLake(sh[1], sh[2], g, sl, m) :
            g \in Grids("FrozenLake", sh), sl \in slips, m \in budgets}
        \cup
        {GridWorld(sh[1], sh[2], g, m) :
            g \in Grids("GridWorld", sh), m \in budgets}
        : sh \in Shapes}

----------------------------------------------------------------------------
(* Episodes: Environment.__init__, reset and step, with the subclasses'    *)
(* step.  ret records the last call: its kind, the state it started from,  *)
(* the action, and the returned (state, reward, done); k counts the step   *)
(* calls that returned since the last reset.  A query of the oracle        *)
(* records the probability and the reward it returned.                     *)

NoRet == [op |-> "none", from |-> 0, action |-> 0, state |-> 0, reward |-> 0,
          done |-> FALSE, prob |-> <<0, 1>>]

\* random_state.choice(n_states, p=pi): any state of positive mass
choice(e) == {s \in States(e) : pi(e)[s] > 0}

\* EnvironmentModel.draw: a next state of positive probability, and its reward
draw(e, st, action) ==
    {<<ns, r(e, ns, st, action)>> :
        ns \in {x \in States(e) : RLt(Rat(0), p(e, x, st, action))}}

\* Environment_done one step late
Environment_done_late(e, n) == n > e.max_steps

\* Environment.step: done = (self.n_steps >= self.max_steps)
Environment_done(e, n) == n >= e.max_steps

\* FrozenLake.step / GridWorld.step: done = (state == absorbing_state) or done
Subclass_done(e, st, done) == (st = absorbing_state(e)) \/ done

SolverIdle ==
    /\ model = <<>>
    /\ gamma = Rat(0)
    /\ theta = Rat(0)
    /\ max_iterations = 0
    /\ pc = "idle"
    /\ policy = <<>>
    /\ value = <<>>
    /\ stop = FALSE
    /\ current_iteration = 0
    /\ ev = <<>>
    /\ vi = <<>>
    /\ rounds = <<>>
    /\ saved = ""

Init ==
    /\ env \in Envs(Slips, 1 .. MaxSteps)
    /\ n_steps = 0
    /\ state \in choice(env)
    /\ k = 0
    /\ ret = NoRet
    /\ SolverIdle

reset ==
    /\ n_steps' = 0
    /\ state' \in choice(env)
    /\ k' = 0
    /\ ret' = [NoRet EXCEPT !.op = "reset", !.state = state']
    /\ UNCHANGED <<env, solverVars>>

step(action) ==
    /\ action \in Actions
    /\ k <= env.max_steps
    /\ n_steps' = n_steps + 1
    /\ \E d \in draw(env, state, action) :
         /\ state' = d[1]
         /\ ret' = [NoRet EXCEPT !.op = "step", !.from = state,
                    !.action = action, !.state = d[1], !.reward = d[2],
                    !.done = Subclass_done(env, d[1],
                                Environment_done(env, n_steps + 1))]
    /\ k' = k + 1
    /\ UNCHANGED <<env, solverVars>>

\* an action outside [0, n_actions) raises before anything is changed
step_invalid(action) ==
    /\ action < 0 \/ action >= n_actions
    /\ ret' = [NoRet EXCEPT !.op = "raise"]
    /\ UNCHANGED <<env, state, n_steps, k, solverVars>>

Next ==
    \/ reset
    \/ \E a \in Actions : step(a)
    \/ \E a \in {-1, n_actions} : step_invalid(a)

Spec == Init /\ [][Next]_vars
----------------------------------------------------------------------------
(* Queries of the oracle p / r of a constructed environment.               *)

OracleInit ==
    /\ env \in Envs(Slips, {1})
    /\ n_steps = 0
    /\ state \in choice(env)
    /\ k = 0
    /\ ret = NoRet
    /\ SolverIdle

\* the triples (state, action, next_state) in the order of three nested
\* loops, as one number
triple(e, st, action, next_state) ==
    (st * n_actions + action) * n_states(e) + next_state

\* the next query of a pass over all triples
query(next_state, st, action) ==
    /\ ret' = [NoRet EXCEPT !.op = "query", !.from = st, !.action = action,
               !.state = next_state,
               !.prob = p(env, next_state, st, action),
               !.reward = r(env, next_state, st, action)]
    /\ UNCHANGED <<env, state, n_steps, k, solverVars>>

OracleNext ==
    LET n == IF ret.op = "query"
             THEN triple(env, ret.from, ret.action, ret.state) + 1
             ELSE 0
    IN  /\ n < n_states(env) * n_actions * n_states(env)
        /\ query(n % n_states(env), n \div (n_actions * n_states(env)),
                 (n \div n_states(env)) % n_actions)

OracleSpec == OracleInit /\ [][OracleNext]_vars
----------------------------------------------------------------------------
(* The solvers.  Arrays over states are functions on States(env).          *)

\* EnvironmentModel.get_prob_rewards: the tensors p[s][next_state][a] and
\* r[s][next_state][a] of the oracle, computed once
get_prob_rewards(e) ==
    [n_states |-> n_states(e),
     p |-> [s \in States(e) |-> [ns \in States(e) |-> [a \in Actions |->
              p(e, ns, s, a)]]],
     r |-> [s \in States(e) |-> [ns \in States(e) |-> [a \in Actions |->
              Rat(r(e, ns, s, a))]]]]

zeros(n) == [s \in 0 .. n - 1 |-> Rat(0)]

zero_policy(n) == [s \in 0 .. n - 1 |-> 0]

\* np.sum(p[s] * (r[s] + gamma * value.reshape(-1, 1)), axis=0)[a]
Q(m, s, a, v, g) ==
    RSum([ns \in 0 .. m.n_states - 1 |->
            RMul(m.p[s][ns][a], RAdd(m.r[s][ns][a], RMul(g, v[ns])))],
         0, m.n_states - 1)

RECURSIVE argmax_from(_, _, _)
argmax_from(q, a, best) ==
    IF a >= n_actions THEN best
    ELSE argmax_from(q, a + 1, IF RLt(q[best], q[a]) THEN a ELSE best)

\* argmax returning the last of several maximal entries
argmax_last(q) ==
    CHOOSE a \in Actions :
        /\ \A b \in Actions : RLe(q[b], q[a])
        /\ \A b \in Actions : b > a => RLt(q[b], q[a])

\* np.argmax: the first maximal entry
argmax(q) == argmax_from(q, 1, 0)

\* np_max taking the first entry
np_max_first(q) == q[0]

RECURSIVE max_from(_, _, _)
max_from(q, a, best) ==
    IF a >= n_actions THEN best ELSE max_from(q, a + 1, RMax(best, q[a]))

\* np.max
np_max(q) == max_from(q, 1, q[0])

\* the improved policy of policy_improvement
improved_policy(m, v, g) ==
    [s \in 0 .. m.n_states - 1 |->
        argmax([a \in Actions |-> Q(m, s, a, v, g)])]

\* np.all(np.equal(policy, improved_policy))
policies_equal(n, pol, improved) ==
    \A s \in 0 .. n - 1 : pol[s] = improved[s]

policy_improvement(m, pol, v, g) ==
    CHOOSE out \in {[policy |-> imp,
                     stable |-> policies_equal(m.n_states, pol, imp)] :
                        imp \in {improved_policy(m, v, g)}} : TRUE

\* one sweep of policy_evaluation over the states s, s + 1, ... in place
RECURSIVE evaluation_sweep(_, _, _, _, _, _)
evaluation_sweep(m, pol, g, v, s, delta) ==
    IF s >= m.n_states THEN [value |-> v, delta |-> delta]
    ELSE CHOOSE out \in
            {evaluation_sweep(m, pol, g, [v EXCEPT ![s] = new_value], s + 1,
                 RMax(delta, RAbs(RSub(v[s], new_value)))) :
                    new_value \in {Q(m, s, pol[s], v, g)}} : TRUE

\* one sweep of value_iteration with every backup read from the array as it
\* was when the sweep began
optimality_sweep_snapshot(m, g, v, s, delta) ==
    LET new_value == [x \in 0 .. m.n_states - 1 |->
                         IF x < s THEN v[x]
                         ELSE np_max([a \in Actions |-> Q(m, x, a, v, g)])]
        changes == {delta} \cup {RAbs(RSub(v[x], new_value[x])) :
                                    x \in 0 .. m.n_states - 1}
    IN  [value |-> new_value,
         delta |-> CHOOSE d \in changes : \A c \in changes : RLe(c, d)]

\* one sweep of value_iteration over the states s, s + 1, ... in place
RECURSIVE optimality_sweep(_, _, _, _, _)
optimality_sweep(m, g, v, s, delta) ==
    IF s >= m.n_states THEN [value |-> v, delta |-> delta]
    ELSE CHOOSE out \in
            {optimality_sweep(m, g, [v EXCEPT ![s] = new_value], s + 1,
                 RMax(delta, RAbs(RSub(v[s], new_value)))) :
                    new_value \in {np_max([a \in Actions |-> Q(m, s, a, v, g)])}}
            : TRUE

\* policy_evaluation: while curr_iteration < max_iterations and not stop
evaluation_continues(curr_iteration, max_it, stp) ==
    curr_iteration < max_it /\ ~stp

\* the loop test of value_iteration without its stop flag
vi_continues_ignoring_stop(curr_iteration, max_it, stp) ==
    curr_iteration < max_it

\* value_iteration: while curr_iteration < max_iterations and not stop
vi_continues(curr_iteration, max_it, stp) ==
    curr_iteration < max_it /\ ~stp

\* the loop test of policy_iteration letting one more round through
pi_continues_one_more(cur_iteration, max_it, stp) ==
    cur_iteration <= max_it /\ ~stp

\* policy_iteration: while current_iteration < max_iterations and not stop
pi_continues(cur_iteration, max_it, stp) ==
    cur_iteration < max_it /\ ~stp

\* the while loop of policy_evaluation from (value, curr_iteration, stop)
RECURSIVE evaluation_loop(_, _, _, _, _, _, _, _)
evaluation_loop(m, pol, g, th, max_it, v, curr_iteration, stp) ==
    IF evaluation_continues(curr_iteration, max_it, stp)
    THEN CHOOSE out \in
            {evaluation_loop(m, pol, g, th, max_it, sw.value,
                             curr_iteration + 1, RLt(sw.delta, th)) :
                sw \in {evaluation_sweep(m, pol, g, v, 0, Rat(0))}} : TRUE
    ELSE v

policy_evaluation(m, pol, g, th, max_it) ==
    evaluation_loop(m, pol, g, th, max_it, zeros(m.n_states), 0, FALSE)

\* the environments the solvers are run on: deterministic ones, so that the
\* exact values keep small denominators
SolveEnvs == Envs({Rat(0)}, {1})

Gammas == {<<1, 2>>, <<1, 1>>}

Thetas == {<<0, 1>>, <<1, 2>>}

NoFrame == [policy |-> <<>>, value |-> <<>>, curr_iteration |-> 0,
            stop |-> FALSE, delta |-> <<0, 1>>]

SolveInit ==
    /\ env \in SolveEnvs
    /\ n_steps = 0
    /\ state \in choice(env)
    /\ k = 0
    /\ ret = NoRet
    /\ model = get_prob_rewards(env)
    /\ gamma \in Gammas
    /\ theta \in Thetas
    /\ max_iterations \in 0 .. MaxIter
    /\ pc = "policy_iteration"
    /\ policy = <<>>
    /\ value = <<>>
    /\ stop = FALSE
    /\ current_iteration = 0
    /\ ev = NoFrame
    /\ vi = NoFrame
    /\ rounds = <<>>
    /\ saved = ""

\* policy_iteration is entered: its locals are initialised
pi_begin ==
    /\ pc = "policy_iteration"
    /\ policy' = zero_policy(model.n_states)
    /\ value' = zeros(model.n_states)
    /\ stop' = FALSE
    /\ current_iteration' = 0
    /\ pc' = "pi_loop"
    /\ UNCHANGED <<env, episodeVars, model, gamma, theta, max_iterations, ev, vi,
                   rounds, saved>>

\* the loop test holds: policy_evaluation is called on the current policy
pi_evaluate ==
    /\ pc = "pi_loop"
    /\ pi_continues(current_iteration, max_iterations, stop)
    /\ ev' = [NoFrame EXCEPT !.policy = policy, !.value = zeros(model.n_states)]
    /\ pc' = "pe_loop"
    /\ UNCHANGED <<env, episodeVars, model, gamma, theta, max_iterations, policy,
                   value, stop, current_iteration, vi, rounds, saved>>

\* one sweep of policy_evaluation
pe_sweep ==
    /\ pc = "pe_loop"
    /\ evaluation_continues(ev.curr_iteration, max_iterations, ev.stop)
    /\ \E sw \in {evaluation_sweep(model, ev.policy, gamma, ev.value, 0, Rat(0))} :
           ev' = [ev EXCEPT !.value = sw.value, !.delta = sw.delta,
                            !.curr_iteration = @ + 1,
                            !.stop = RLt(sw.delta, theta)]
    /\ UNCHANGED <<env, episodeVars, model, gamma, theta, max_iterations, pc, policy,
                   value, stop, current_iteration, vi, rounds, saved>>

\* policy_evaluation returns; policy_improvement runs on its value
pi_improve ==
    /\ pc = "pe_loop"
    /\ ~evaluation_continues(ev.curr_iteration, max_iterations, ev.stop)
    /\ \E imp \in {policy_improvement(model, policy, ev.value, gamma)} :
           /\ value' = ev.value
           /\ policy' = imp.policy
           /\ stop' = imp.stable
           /\ rounds' = Append(rounds,
                   [evaluated |-> ev.policy, sweeps |-> ev.curr_iteration,
                    converged |-> ev.stop, value |-> ev.value,
                    given |-> policy,
                    improved |-> imp.policy, stable |-> imp.stable])
    /\ current_iteration' = current_iteration + 1
    /\ pc' = "pi_loop"
    /\ UNCHANGED <<env, episodeVars, model, gamma, theta, max_iterations, ev, vi,
                   saved>>

\* the loop ends: the value is saved and (policy, value) returned
pi_return ==
    /\ pc = "pi_loop"
    /\ ~pi_continues(current_iteration, max_iterations, stop)
    /\ saved' = IF n_states(env) = 17
                THEN "data/small_frozenlake_policy_evaluation.npy"
                ELSE "data/big_frozenlake_policy_evaluation.npy"
    /\ pc' = "value_iteration"
    /\ UNCHANGED <<env, episodeVars, model, gamma, theta, max_iterations, policy,
                   value, stop, current_iteration, ev, vi, rounds>>

\* value_iteration is entered with the same arguments
vi_begin ==
    /\ pc = "value_iteration"
    /\ vi' = [NoFrame EXCEPT !.policy = zero_policy(model.n_states), !.value = zeros(model.n_states)]
    /\ pc' = "vi_loop"
    /\ UNCHANGED <<env, episodeVars, model, gamma, theta, max_iterations, policy,
                   value, stop, current_iteration, ev, rounds, saved>>

\* one sweep of value_iteration
vi_sweep ==
    /\ pc = "vi_loop"
    /\ vi_continues(vi.curr_iteration, max_iterations, vi.stop)
    /\ \E sw \in {optimality_sweep(model, gamma, vi.value, 0, Rat(0))} :
           vi' = [vi EXCEPT !.value = sw.value, !.delta = sw.delta,
                            !.curr_iteration = @ + 1,
                            !.stop = RLt(sw.delta, theta)]
    /\ UNCHANGED <<env, episodeVars, model, gamma, theta, max_iterations, pc, policy,
                   value, stop, current_iteration, ev, rounds, saved>>

\* the loop ends: the greedy policy is taken and (policy, value) returned
vi_return ==
    /\ pc = "vi_loop"
    /\ ~vi_continues(vi.curr_iteration, max_iterations, vi.stop)
    /\ vi' = [vi EXCEPT !.policy =
                policy_improvement(model, vi.policy, vi.value, gamma).policy]
    /\ pc' = "done"
    /\ UNCHANGED <<env, episodeVars, model, gamma, theta, max_iterations, policy,
                   value, stop, current_iteration, ev, rounds, saved>>

SolveNext ==
    \/ pi_begin
    \/ pi_evaluate
    \/ pe_sweep
    \/ pi_improve
    \/ pi_return
    \/ vi_begin
    \/ vi_sweep
    \/ vi_return

SolveSpec == SolveInit /\ [][SolveNext]_vars

----------------------------------------------------------------------------
(* Properties of the oracle and of episodes.                               *)

\* the neighbour of cell s in the direction of action a by index arithmetic,
\* s itself when that neighbour would lie outside the grid
move(e, s, a) ==
    CASE a = 0 -> IF s >= e.columns THEN s - e.columns ELSE s
      [] a = 1 -> IF s + e.columns < e.rows * e.columns THEN s + e.columns ELSE s
      [] a = 2 -> IF s % e.columns > 0 THEN s - 1 ELSE s
      [] a = 3 -> IF s % e.columns < e.columns - 1 THEN s + 1 ELSE s

\* the symbol of cell s
token_of(e, s) == e.grid[s + 1]

is_cell(e, s) == 0 <= s /\ s < absorbing_state(e)

\* C1: in both environments, for every state and action the probabilities
\* p(next_state, state, action) sum to 1 over next_state, and each lies in
\* [0, 1].
C1_ProbabilitiesSumToOne ==
    ret.op = "query" =>
        /\ RSum([ns \in States(env) |-> p(env, ns, ret.from, ret.action)],
                0, n_states(env) - 1) = Rat(1)
        /\ RLe(Rat(0), ret.prob)
        /\ RLe(ret.prob, Rat(1))

C1_Witness ==
    /\ ret.op = "query"
    /\ env.kind = "FrozenLake"
    /\ env.slip = <<1, 2>>
    /\ RLt(Rat(0), ret.prob)
    /\ RLt(ret.prob, Rat(1))
    /\ ret.state = ret.from

\* C2: the absorbing state A loops to itself with probability 1 under every
\* action, reaches no other state, and pays reward 0; a step taken in A
\* stays in A and returns reward 0.
C2_AbsorbingStateAbsorbs ==
    LET A == absorbing_state(env)
    IN  /\ \A a \in Actions :
            /\ p(env, A, A, a) = Rat(1)
            /\ \A ns \in States(env) :
                /\ ns # A => p(env, ns, A, a) = Rat(0)
                /\ r(env, ns, A, a) = 0
        /\ (ret.op = "step" /\ ret.from = A) =>
               (ret.state = A /\ state = A /\ ret.reward = 0)

C2_Witness ==
    /\ ret.op = "step"
    /\ ret.from = absorbing_state(env)
    /\ state = absorbing_state(env)
    /\ k = 3

\* C3: the k-th step since the last reset returns done exactly when
\* k >= max_steps or the returned state is the absorbing state.
C3_DoneIffBudgetOrAbsorbing ==
    ret.op = "step" =>
        (ret.done <=> (k >= env.max_steps \/ ret.state = absorbing_state(env)))

C3_Witness ==
    /\ ret.op = "step"
    /\ ret.done
    /\ k = 2
    /\ env.max_steps = 2
    /\ ret.state # absorbing_state(env)

\* C4: in FrozenLake a hole, a goal and the absorbing state move to the
\* absorbing state with probability 1; for any other cell s and action a,
\* p(d, s, a) = (1 - slip) * [d = move(s, a)]
\*              + (slip / 4) * |{a' : move(s, a') = d}|.
C4_FrozenLakeKernel ==
    (ret.op = "query" /\ env.kind = "FrozenLake") =>
        LET s == ret.from
            d == ret.state
        IN  IF ~is_cell(env, s) \/ token_of(env, s) \in {BLOCK, GOAL}
            THEN ret.prob = Rat(int(d = absorbing_state(env)))
            ELSE ret.prob =
                   RAdd(RMul(RSub(Rat(1), env.slip),
                             Rat(int(d = move(env, s, ret.action)))),
                        RMul(RDivInt(env.slip, 4),
                             Rat(Cardinality({a \in Actions :
                                                move(env, s, a) = d}))))

C4_Witness ==
    /\ ret.op = "query"
    /\ env.kind = "FrozenLake"
    /\ env.slip = <<1, 2>>
    /\ is_cell(env, ret.from)
    /\ token_of(env, ret.from) \in {START, PLAIN}
    /\ ret.prob = <<3, 4>>
    /\ ret.state = ret.from

\* C5: in FrozenLake r(next_state, state, action) is 1 exactly when state is
\* a goal cell and p(next_state, state, action) > 0, and 0 for every other
\* triple.
C5_FrozenLakeReward ==
    (ret.op = "query" /\ env.kind = "FrozenLake") =>
        ret.reward =
            IF /\ is_cell(env, ret.from)
               /\ token_of(env, ret.from) = GOAL
               /\ RLt(Rat(0), ret.prob)
            THEN 1 ELSE 0

C5_Witness ==
    /\ ret.op = "query"
    /\ env.kind = "FrozenLake"
    /\ ret.reward = 1
    /\ ret.state = absorbing_state(env)

\* the one state GridWorld moves to from s under a
GridWorld_destination(e, s, a) ==
    IF ~is_cell(e, s) THEN s
    ELSE IF token_of(e, s) = BLOCK THEN s
    ELSE IF token_of(e, s) \in {NEGGOAL, GOAL} THEN absorbing_state(e)
    ELSE IF token_of(e, move(e, s, a)) = BLOCK THEN s
    ELSE move(e, s, a)

\* C6: in GridWorld exactly one next_state has probability 1 and all others
\* 0: an obstacle or the absorbing state maps to itself, a goal cell of
\* either sign to the absorbing state, any other cell to the neighbour in
\* the action's direction when it is inside the grid and no obstacle, and
\* to itself otherwise.
C6_GridWorldKernel ==
    (ret.op = "query" /\ env.kind = "GridWorld") =>
        ret.prob =
            Rat(int(ret.state = GridWorld_destination(env, ret.from, ret.action)))

C6_Witness ==
    /\ ret.op = "query"
    /\ env.kind = "GridWorld"
    /\ is_cell(env, ret.from)
    /\ token_of(env, ret.from) = START
    /\ move(env, ret.from, ret.action) # ret.from
    /\ token_of(env, move(env, ret.from, ret.action)) = BLOCK
    /\ ret.state = ret.from
    /\ ret.prob = Rat(1)

\* C7: in GridWorld r is 0 when p is 0 or when state or next_state is the
\* absorbing state; otherwise +1 into a positive goal, -1 into a negative
\* goal, 0 into any other cell.
C7_GridWorldReward ==
    (ret.op = "query" /\ env.kind = "GridWorld") =>
        ret.reward =
            IF ret.prob = Rat(0) THEN 0
            ELSE IF ~is_cell(env, ret.from) \/ ~is_cell(env, ret.state) THEN 0
            ELSE IF token_of(env, ret.state) = GOAL THEN 1
            ELSE IF token_of(env, ret.state) = NEGGOAL THEN -1
            ELSE 0

C7_Witness ==
    /\ ret.op = "query"
    /\ env.kind = "GridWorld"
    /\ ret.reward = -1
    /\ token_of(env, ret.from) = START
----------------------------------------------------------------------------
(* Properties of the solvers.                                              *)

\* Q(s, a) = sum over s' of p(s', s, a) * (r(s', s, a) + gamma * v[s'])
\* for every action a of state s
action_values(s, v) ==
    [a \in Actions |->
        RSum([ns \in States(env) |->
                RMul(model.p[s][ns][a],
                     RAdd(model.r[s][ns][a], RMul(gamma, v[ns])))],
             0, n_states(env) - 1)]

\* a is the lowest-indexed maximiser of q
lowest_maximiser(q, a) ==
    \A b \in Actions : RLe(q[b], q[a]) /\ (b < a => RLt(q[b], q[a]))

\* pol picks in every state the lowest-indexed action maximising Q under v
greedy(pol, v) ==
    \A s \in States(env) :
        \E q \in {action_values(s, v)} : lowest_maximiser(q, pol[s])

\* every loop of both runs ended by its own test, not at max_iterations
AllConverged ==
    /\ stop
    /\ vi.stop
    /\ \A i \in 1 .. Len(rounds) : rounds[i].converged

ValuesWithinTheta ==
    \A s \in States(env) : RLt(RAbs(RSub(value[s], vi.value[s])), theta)

\* the two policies agree wherever the action-values of their two actions
\* differ, under the value array of either run
PoliciesAgreeButTies ==
    \A s \in States(env) :
        \/ policy[s] = vi.policy[s]
        \/ Q(model, s, policy[s], value, gamma)
             = Q(model, s, vi.policy[s], value, gamma)
        \/ Q(model, s, policy[s], vi.value, gamma)
             = Q(model, s, vi.policy[s], vi.value, gamma)

NoNegativeGoal == \A i \in 1 .. Len(env.grid) : env.grid[i] # NEGGOAL

C9_PolicyImprovement ==
    /\ (pc = "pi_loop" /\ Len(rounds) > 0) =>
          \E rd \in {rounds[Len(rounds)]} :
              /\ greedy(rd.improved, rd.value)
              /\ rd.stable <=> (\A s \in States(env) :
                                    rd.improved[s] = rd.given[s])
              /\ policy_improvement(model, rd.improved, rd.value, gamma).stable
    /\ pc = "done" => greedy(vi.policy, vi.value)

C9_Witness ==
    /\ pc = "pi_loop"
    /\ Len(rounds) = 2
    /\ ~rounds[2].stable
    /\ \E s \in States(env) :
          /\ rounds[2].improved[s] = 3
          /\ rounds[2].given[s] = 0
          /\ action_values(s, rounds[2].value)[1]
               = action_values(s, rounds[2].value)[0]

\* C10: policy_iteration starts from the all-zero policy; each round
\* evaluates the current policy and improves it from the resulting value;
\* it stops right after the first round that reports stable and otherwise
\* after exactly max_iterations rounds, and then returns (policy, value);
\* every step of the loop adds one to the round or the sweep counter, and
\* neither counter passes max_iterations, so the loop ends.
C10_PolicyIterationRounds ==
    /\ (pc = "pi_loop" /\ Len(rounds) > 0) =>
          \E i \in {Len(rounds)} : \E rd \in {rounds[Len(rounds)]} :
              /\ rd.evaluated =
                   IF i = 1 THEN zero_policy(n_states(env))
                   ELSE rounds[i - 1].improved
              /\ rd.given = rd.evaluated
              /\ rd.value = policy_evaluation(model, rd.evaluated, gamma,
                                              theta, max_iterations)
              /\ rd.improved = improved_policy(model, rd.value, gamma)
              /\ policy = rd.improved
              /\ value = rd.value
              /\ stop = rd.stable
    /\ (pc = "pi_loop" /\ Len(rounds) = 0) =>
          (policy = zero_policy(n_states(env)) /\ value = zeros(n_states(env)))
    /\ \A i \in 1 .. Len(rounds) - 1 : ~rounds[i].stable
    /\ pc = "pi_loop" =>
          /\ current_iteration = Len(rounds)
          /\ current_iteration <= max_iterations
          /\ pi_continues(current_iteration, max_iterations, stop)
                <=> (~stop /\ current_iteration < max_iterations)
    /\ pc = "pe_loop" =>
          /\ current_iteration = Len(rounds)
          /\ current_iteration < max_iterations
          /\ ev.curr_iteration <= max_iterations
          /\ ~stop
    /\ pc \in {"value_iteration", "vi_loop", "done"} =>
          /\ Len(rounds) = current_iteration
          /\ saved # ""
          /\ \/ Len(rounds) > 0 /\ rounds[Len(rounds)].stable
             \/ Len(rounds) = max_iterations
          /\ policy = IF Len(rounds) = 0 THEN zero_policy(n_states(env))
                      ELSE rounds[Len(rounds)].improved
          /\ value = IF Len(rounds) = 0 THEN zeros(n_states(env))
                     ELSE rounds[Len(rounds)].value

C10_Witness ==
    /\ pc = "value_iteration"
    /\ ~stop
    /\ max_iterations = 2
    /\ Len(rounds) = 2
    /\ rounds[2].improved # rounds[1].improved

\* the number of cells of the grid holding token
count_of(token) ==
    Cardinality({i \in 1 .. Len(env.grid) : env.grid[i] = token})

\* action a moves state s into a cell holding token
enters(s, a, token) ==
    \E ns \in 0 .. absorbing_state(env) - 1 :
        token_of(env, ns) = token /\ model.p[s][ns][a] = Rat(1)

\* the states that can move into a cell holding token in one step
predecessors(token) ==
    {s \in States(env) : \E a \in Actions : enters(s, a, token)}

\* value_iteration has returned on a GridWorld with exactly one positive-goal
\* and one negative-goal cell, run with gamma = 1
RewardGridSolved ==
    /\ pc = "done"
    /\ env.kind = "GridWorld"
    /\ count_of(GOAL) = 1
    /\ count_of(NEGGOAL) = 1
    /\ gamma = Rat(1)

\* the returned policy selects in no state an action that moves into the
\* negative goal when another action does not
AvoidsNegativeGoal ==
    \A s \in States(env) :
        enters(s, vi.policy[s], NEGGOAL) =>
            \A a \in Actions : enters(s, a, NEGGOAL)

array_read_at(old, new, s) ==
    [x \in DOMAIN old |-> IF x < s THEN new[x] ELSE old[x]]

\* q is the largest entry of qs
largest(qs, q) ==
    (\E a \in Actions : qs[a] = q) /\ (\A a \in Actions : RLe(qs[a], q))

\* C12: in one sweep of policy_evaluation and of value_iteration the backup
\* of state s reads the values the same sweep wrote for the states below s
\* and the previous values for s and the states above it.
C12_SweepsInPlace ==
    [][/\ (pc = "pe_loop" /\ ev'.curr_iteration = ev.curr_iteration + 1) =>
            \A s \in States(env) :
                ev'.value[s] =
                    action_values(s, array_read_at(ev.value, ev'.value, s))
                        [ev.policy[s]]
       /\ (pc = "vi_loop" /\ vi'.curr_iteration = vi.curr_iteration + 1) =>
            \A s \in States(env) :
                largest(action_values(s, array_read_at(vi.value, vi'.value, s)),
                        vi'.value[s])]_vars

\* after the first sweep of value_iteration some state holds a value that a
\* backup from the all-zero array does not give
C12_Witness ==
    /\ pc = "vi_loop"
    /\ vi.curr_iteration = 1
    /\ \E s \in States(env) :
          ~largest(action_values(s, zeros(n_states(env))), vi.value[s])

\* d is the largest |old[s] - new[s]| over the states
largest_change(old, new, d) ==
    /\ \E s \in States(env) : RAbs(RSub(old[s], new[s])) = d
    /\ \A s \in States(env) : RLe(RAbs(RSub(old[s], new[s])), d)

\* the locals of a sweep loop: at most max_iterations sweeps so far, the
\* all-zero array before the first, stop set exactly by a last sweep with
\* delta < theta, which no sweep gives when theta <= 0
loop_frame(f) ==
    /\ f.curr_iteration <= max_iterations
    /\ f.curr_iteration = 0 => f.value = zeros(n_states(env))
    /\ f.stop <=> (f.curr_iteration >= 1 /\ RLt(f.delta, theta))
    /\ RLe(theta, Rat(0)) => ~f.stop

\* a loop that ended after sweeps sweeps, converged telling whether its last
\* sweep had delta < theta
loop_ended(sweeps, converged) ==
    /\ sweeps <= max_iterations
    /\ converged \/ sweeps = max_iterations
    /\ RLe(theta, Rat(0)) => sweeps = max_iterations

\* a step from frame f to frame g that is one more sweep
one_sweep(f, g) ==
    /\ ~f.stop
    /\ f.curr_iteration < max_iterations
    /\ largest_change(f.value, g.value, g.delta)

\* C13: the sweep loops of policy_evaluation and value_iteration run at most
\* max_iterations sweeps, a sweep runs only while no earlier sweep had
\* delta < theta, delta being the largest |old value - new value| of the
\* sweep; with theta <= 0 exactly max_iterations sweeps run; with
\* max_iterations = 0 none runs and the all-zero array is returned.
C13_SweepLoops ==
    /\ [](/\ pc = "pe_loop" => loop_frame(ev)
          /\ pc \in {"vi_loop", "done"} => loop_frame(vi)
          /\ (pc = "pi_loop" /\ Len(rounds) > 0) =>
                loop_ended(rounds[Len(rounds)].sweeps,
                           rounds[Len(rounds)].converged)
          /\ pc = "done" => loop_ended(vi.curr_iteration, vi.stop)
          /\ (pc = "pi_loop" /\ Len(rounds) = 0) =>
                policy_evaluation(model, policy, gamma, theta, 0)
                    = zeros(n_states(env)))
    /\ [][/\ (pc = "pe_loop" /\ ev'.curr_iteration # ev.curr_iteration) =>
               (ev'.curr_iteration = ev.curr_iteration + 1 /\ one_sweep(ev, ev'))
          /\ (pc = "vi_loop" /\ vi'.curr_iteration # vi.curr_iteration) =>
               (vi'.curr_iteration = vi.curr_iteration + 1 /\ one_sweep(vi, vi'))
          /\ (pc = "pe_loop" /\ pc' = "pi_loop") =>
               (value' = ev.value
                /\ loop_ended(ev.curr_iteration, ev.stop))
          /\ (pc = "vi_loop" /\ pc' = "done") =>
               (vi'.value = vi.value
                /\ loop_ended(vi.curr_iteration, vi.stop))]_vars

\* value_iteration has returned after two sweeps, the second the first with
\* delta < theta, with a third allowed by max_iterations
C13_Witness ==
    /\ pc = "done"
    /\ vi.stop
    /\ vi.curr_iteration = 2
    /\ max_iterations = 3
    /\ RLt(vi.delta, theta)
    /\ \E s \in States(env) : vi.value[s] = <<1, 2>>
====
